---- MODULE Spec2Model ----
(***************************************************************************)
(* Model of auth0/resource_auth0_log_stream.go: the schema of the          *)
(* auth0_log_stream resource, the expand / flatten conversions between the *)
(* flat configuration and the polymorphic sink object, and the four CRUD   *)
(* handlers run against a management API whose calls can fail.             *)
(*                                                                         *)
(* Go pointers are modelled as sets: {} is nil and {v} points at v.        *)
(***************************************************************************)
EXTENDS Naturals, Sequences, FiniteSets, TLC

VARIABLES
    config,     \* the user's configuration: name, type, status, sink keys set
    d,          \* the schema.ResourceData handed to the handlers
    remote,     \* the remote side: <<>> or <<the stored log stream>>
    pc,         \* where the resource is in its lifecycle
    lastOp,     \* the handler that ran last
    err,        \* the error that handler returned ("nil" for none)
    calls,      \* the steps the handler performed, in order
    answers,    \* the outcomes of the API calls the handler made, in order
    payload,    \* <<the record passed to api.Create / api.Update>>, or <<>>
    written,    \* the keys d.Set stored during the handler
    rejected    \* the keys d.Set refused during the handler

vars == <<config, d, remote, pc, lastOp, err, calls, answers, payload, written,
          rejected>>

(***************************************************************************)
(* Bounds of the model.                                                    *)
(***************************************************************************)
\* the most sink keys a configuration sets
MaxFields == 5

(***************************************************************************)
(* The schema (newLogStream).                                              *)
(***************************************************************************)
LogStreamTypeAmazonEventBridge == "eventbridge"
LogStreamTypeAzureEventGrid == "eventgrid"
LogStreamTypeHTTP == "http"
LogStreamTypeDatadog == "datadog"
LogStreamTypeSplunk == "splunk"

\* the slice handed to the type field's validation.StringInSlice
TypeSlice == {"eventbridge", "eventgrid", "http", "datadog", "splunk"}
\* the slice handed to the status field's validation.StringInSlice
StatusSlice == {"active", "paused", "suspended"}
\* the slice handed to http_content_format's validation.StringInSlice
ContentFormatSlice == {"JSONLINES", "JSONARRAY"}

AwsKeys == {"aws_account_id", "aws_region"}
AzureKeys == {"azure_subscription_id", "azure_resource_group", "azure_region"}
HttpKeys == {"http_content_format", "http_content_type", "http_endpoint",
             "http_authorization", "http_custom_headers"}
DatadogKeys == {"datadog_region", "datadog_api_key"}
SplunkKeys == {"splunk_domain", "splunk_token", "splunk_port", "splunk_secure"}

\* the Optional sink keys a configuration may set
SinkKeys == AwsKeys \cup AzureKeys \cup HttpKeys \cup DatadogKeys \cup SplunkKeys
\* the keys declared Computed
ComputedKeys == {"status", "aws_partner_event_source", "azure_partner_topic"}
\* every key of the Schema map
SchemaKeys == {"name", "type", "status"} \cup SinkKeys \cup ComputedKeys

\* the field group a type selects
GroupOf(t) ==
    CASE t = "eventbridge" -> AwsKeys
      [] t = "eventgrid" -> AzureKeys
      [] t = "http" -> HttpKeys
      [] t = "datadog" -> DatadogKeys
      [] t = "splunk" -> SplunkKeys
      [] OTHER -> {}

ConflictsWith(k) ==
    CASE k = "aws_account_id" ->
            {"azure_subscription_id", "http_endpoint", "datadog_api_key", "splunk_token"}
      [] k = "azure_subscription_id" ->
            {"aws_account_id", "http_endpoint", "datadog_api_key", "splunk_token"}
      [] k = "azure_resource_group" -> {"aws_account_id"}
      [] k = "azure_region" -> {"aws_account_id"}
      [] k = "http_endpoint" ->
            {"aws_account_id", "azure_subscription_id", "datadog_api_key", "splunk_token"}
      [] k = "http_custom_headers" ->
            {"aws_account_id", "azure_subscription_id", "datadog_api_key", "splunk_token"}
      [] k = "datadog_region" ->
            {"aws_account_id", "azure_subscription_id", "http_endpoint", "splunk_token"}
      [] k = "splunk_token" ->
            {"aws_account_id", "azure_subscription_id", "http_endpoint", "datadog_api_key"}
      [] OTHER -> {}

RequiredWith(k) ==
    CASE k = "aws_account_id" -> {"aws_region"}
      [] k = "aws_region" -> {"aws_account_id"}
      [] k = "azure_subscription_id" -> {"azure_resource_group", "azure_region"}
      [] k = "azure_resource_group" -> {"azure_subscription_id", "azure_region"}
      [] k = "azure_region" -> {"azure_subscription_id", "azure_resource_group"}
      [] k = "http_content_format" ->
            {"http_endpoint", "http_authorization", "http_content_type"}
      [] k = "http_content_type" ->
            {"http_endpoint", "http_authorization", "http_content_format"}
      [] k = "http_endpoint" ->
            {"http_content_format", "http_authorization", "http_content_type"}
      [] k = "http_authorization" ->
            {"http_endpoint", "http_content_format", "http_content_type"}
      [] k = "datadog_region" -> {"datadog_api_key"}
      [] k = "datadog_api_key" -> {"datadog_region"}
      [] k = "splunk_domain" -> {"splunk_token", "splunk_port", "splunk_secure"}
      [] k = "splunk_token" -> {"splunk_domain", "splunk_port", "splunk_secure"}
      [] k = "splunk_port" -> {"splunk_domain", "splunk_token", "splunk_secure"}
      [] k = "splunk_secure" -> {"splunk_domain", "splunk_port", "splunk_token"}
      [] OTHER -> {}

(***************************************************************************)
(* The values configurations are drawn from.                               *)
(***************************************************************************)
Names == {"stream-a", "stream-b"}
\* the five tags, a spelling that differs from a tag only by case, and a
\* string that is no tag at all
Types == TypeSlice \cup {"HTTP", "kafka"}
\* "" stands for a status the configuration leaves out
Statuses == {"", "active", "paused"}

\* strings.ToLower on the strings of the model
ToLower(s) == IF s = "HTTP" THEN "http" ELSE s

\* validation.StringInSlice(valid, ignoreCase)
StringInSlice(valid, ignoreCase, v) ==
    \E str \in valid :
        \/ v = str
        \/ ignoreCase /\ ToLower(v) = ToLower(str)

\* the zero value of a key's schema type
Zero(k) ==
    CASE k = "splunk_secure" -> FALSE
      [] k = "http_custom_headers" -> {}
      [] OTHER -> ""

\* the value the configuration gives a sink key it sets
Val(c, k) ==
    CASE k = "splunk_secure" -> c.secure
      [] k = "http_custom_headers" -> {"X-One: 1", "X-Two: 2"}
      [] k = "http_content_format" -> "JSONLINES"
      [] OTHER -> "val:" \o k

\* the value of key k in configuration c, zero when c leaves it out
ConfigGet(c, k) ==
    CASE k = "name" -> c.name
      [] k = "type" -> c.type
      [] k = "status" -> c.status
      [] k \in c.present -> Val(c, k)
      [] OTHER -> Zero(k)

\* whether configuration c sets key k
IsSet(c, k) ==
    CASE k \in {"name", "type"} -> TRUE
      [] k = "status" -> c.status # ""
      [] OTHER -> k \in c.present

\* a configuration gives splunk_secure a value only where it sets the key
Configs ==
    { c \in [name : Names, type : Types, status : Statuses,
             present : {q \in SUBSET SinkKeys : Cardinality(q) <= MaxFields},
             secure : BOOLEAN] :
        c.secure => "splunk_secure" \in c.present }

\* the configurations a run starts from; the name is changed by later updates
InitialConfigs == {c \in Configs : c.name = "stream-a"}

\* schemaMap.Validate over the Schema map: the ValidateFunc of a key that is
\* set, then its RequiredWith and its ConflictsWith lists
Validate(c) ==
    /\ StringInSlice(TypeSlice, TRUE, c.type)
    /\ IsSet(c, "status") => StringInSlice(StatusSlice, FALSE, c.status)
    /\ IsSet(c, "http_content_format") =>
          StringInSlice(ContentFormatSlice, FALSE, ConfigGet(c, "http_content_format"))
    /\ \A k \in c.present :
          /\ \A r \in RequiredWith(k) : IsSet(c, r)
          /\ \A x \in ConflictsWith(k) : ~IsSet(c, x)

(***************************************************************************)
(* schema.ResourceData and the accessors the handlers use on it.           *)
(***************************************************************************)
ZeroFields == [k \in SchemaKeys |-> Zero(k)]

\* the values a handler reads: the configuration where it sets a key, the
\* prior state for a Computed key it leaves out, the zero value otherwise
Plan(c, prior) ==
    [k \in SchemaKeys |->
        IF IsSet(c, k) THEN ConfigGet(c, k)
        ELSE IF k \in ComputedKeys THEN prior[k]
        ELSE Zero(k)]

\* d.GetOk: the second result, false for a zero value
GetOk(dd, k) == dd.fields[k] # Zero(k)

\* the IsNewResource() condition
IsNewResource(dd) == dd.isNew

\* Any(conditions...): unconditional when no condition is given
AnyOf(conds) == conds = {} \/ TRUE \in conds

\* String(d, key, conditions...): a pointer to the value, nil when the value is
\* zero or the conditions do not hold
String(dd, k, conds) == IF GetOk(dd, k) /\ AnyOf(conds) THEN {dd.fields[k]} ELSE {}

\* Bool(d, key)
Bool(dd, k) == IF GetOk(dd, k) THEN {dd.fields[k]} ELSE {}

\* schema.Set.List(): the elements in the set's fixed order
RECURSIVE SetToList(_)
SetToList(S) ==
    IF S = {} THEN <<>>
    ELSE LET x == CHOOSE y \in S : TRUE IN <<x>> \o SetToList(S \ {x})

\* Set(d, key).List()
SetList(dd, k) == SetToList(dd.fields[k])

\* auth0.StringValue and the generated Get* accessors: the zero value for nil
Deref(p, zero) == IF p = {} THEN zero ELSE CHOOSE v \in p : TRUE

\* d.Set(key, value): refused for a key the schema does not declare; a list
\* given to a TypeSet key is stored as the set of its elements
DSet(fields, k, v) ==
    IF k \notin SchemaKeys THEN fields
    ELSE IF k = "http_custom_headers"
         THEN [fields EXCEPT ![k] = {v[i] : i \in 1..Len(v)}]
         ELSE [fields EXCEPT ![k] = v]

\* a run of d.Set calls, in order
RECURSIVE SetAll(_, _)
SetAll(fields, writes) ==
    IF writes = <<>> THEN fields
    ELSE SetAll(DSet(fields, Head(writes)[1], Head(writes)[2]), Tail(writes))

\* the keys a run of d.Set calls names
KeysOf(writes) == {writes[i][1] : i \in 1..Len(writes)}

(***************************************************************************)
(* expandLogStream and its five sink builders.                             *)
(***************************************************************************)
NoSink == [tag |-> "nil"]

expandLogStreamEventBridgeSink(dd) ==
    [tag |-> "AmazonEventBridge",
     AccountID |-> String(dd, "aws_account_id", {}),
     Region |-> String(dd, "aws_region", {}),
     PartnerEventSource |-> String(dd, "aws_partner_event_source", {})]

expandLogStreamEventGridSink(dd) ==
    [tag |-> "AzureEventGrid",
     SubscriptionID |-> String(dd, "azure_subscription_id", {}),
     ResourceGroup |-> String(dd, "azure_resource_group", {}),
     Region |-> String(dd, "azure_region", {}),
     PartnerTopic |-> String(dd, "azure_partner_topic", {})]

expandLogStreamHTTPSink(dd) ==
    [tag |-> "HTTP",
     ContentFormat |-> String(dd, "http_content_format", {}),
     ContentType |-> String(dd, "http_content_type", {}),
     Endpoint |-> String(dd, "http_endpoint", {}),
     Authorization |-> String(dd, "http_authorization", {}),
     CustomHeaders |-> SetList(dd, "http_custom_headers")]

\* a mutant of expandLogStreamDatadogSink: the two keys exchanged
expandLogStreamDatadogSink_Swapped(dd) ==
    [tag |-> "Datadog",
     Region |-> String(dd, "datadog_api_key", {}),
     APIKey |-> String(dd, "datadog_region", {})]

expandLogStreamDatadogSink(dd) ==
    [tag |-> "Datadog",
     Region |-> String(dd, "datadog_region", {}),
     APIKey |-> String(dd, "datadog_api_key", {})]

expandLogStreamSplunkSink(dd) ==
    [tag |-> "Splunk",
     Domain |-> String(dd, "splunk_domain", {}),
     Token |-> String(dd, "splunk_token", {}),
     Port |-> String(dd, "splunk_port", {}),
     Secure |-> Bool(dd, "splunk_secure")]

\* a mutant of expandSink: the switch compares without regard to case
expandSink_IgnoreCase(dd) ==
    LET s == ToLower(dd.fields["type"]) IN
    CASE s = LogStreamTypeAmazonEventBridge -> expandLogStreamEventBridgeSink(dd)
      [] s = LogStreamTypeAzureEventGrid -> expandLogStreamEventGridSink(dd)
      [] s = LogStreamTypeHTTP -> expandLogStreamHTTPSink(dd)
      [] s = LogStreamTypeDatadog -> expandLogStreamDatadogSink(dd)
      [] s = LogStreamTypeSplunk -> expandLogStreamSplunkSink(dd)
      [] OTHER -> NoSink

\* the switch on d.Get("type"): an exact string comparison with each constant
expandSink(dd) ==
    LET s == dd.fields["type"] IN
    CASE s = LogStreamTypeAmazonEventBridge -> expandLogStreamEventBridgeSink(dd)
      [] s = LogStreamTypeAzureEventGrid -> expandLogStreamEventGridSink(dd)
      [] s = LogStreamTypeHTTP -> expandLogStreamHTTPSink(dd)
      [] s = LogStreamTypeDatadog -> expandLogStreamDatadogSink(dd)
      [] s = LogStreamTypeSplunk -> expandLogStreamSplunkSink(dd)
      [] OTHER -> NoSink

\* a mutant of expandLogStream: the status is left out of the record
expandLogStream_DropsStatus(dd) ==
    [ID |-> {},
     Name |-> String(dd, "name", {IsNewResource(dd)}),
     Type |-> String(dd, "type", {IsNewResource(dd)}),
     Status |-> {},
     Sink |-> expandSink(dd)]

expandLogStream(dd) ==
    [ID |-> {},
     Name |-> String(dd, "name", {IsNewResource(dd)}),
     Type |-> String(dd, "type", {IsNewResource(dd)}),
     Status |-> String(dd, "status", {}),
     Sink |-> expandSink(dd)]

(***************************************************************************)
(* flattenLogStreamSink and its five helpers: each is the run of d.Set     *)
(* calls it makes, as <<key, value>> pairs.                                *)
(***************************************************************************)
flattenLogStreamEventBridgeSink(o) ==
    << <<"aws_account_id", Deref(o.AccountID, "")>>,
       <<"aws_region", Deref(o.Region, "")>>,
       <<"aws_partner_event_source", Deref(o.PartnerEventSource, "")>> >>

flattenLogStreamEventGridSink(o) ==
    << <<"azure_subscription_id", Deref(o.SubscriptionID, "")>>,
       <<"azure_resource_group", Deref(o.ResourceGroup, "")>>,
       <<"azure_region", Deref(o.Region, "")>>,
       <<"azure_partner_topic", Deref(o.PartnerTopic, "")>> >>

flattenLogStreamHTTPSink(o) ==
    << <<"http_endpoint", Deref(o.Endpoint, "")>>,
       <<"http_contentFormat", Deref(o.ContentFormat, "")>>,
       <<"http_contentType", Deref(o.ContentType, "")>>,
       <<"http_authorization", Deref(o.Authorization, "")>>,
       <<"http_custom_headers", o.CustomHeaders>> >>

flattenLogStreamDatadogSink(o) ==
    << <<"datadog_region", Deref(o.Region, "")>>,
       <<"datadog_api_key", Deref(o.APIKey, "")>> >>

flattenLogStreamSplunkSink(o) ==
    << <<"splunk_domain", Deref(o.Domain, "")>>,
       <<"splunk_token", Deref(o.Token, "")>>,
       <<"splunk_port", Deref(o.Port, "")>>,
       <<"splunk_secure", Deref(o.Secure, FALSE)>> >>

\* the type switch on the sink's dynamic type; no d.Set for any other value
flattenLogStreamSink(sink) ==
    CASE sink.tag = "AmazonEventBridge" -> flattenLogStreamEventBridgeSink(sink)
      [] sink.tag = "AzureEventGrid" -> flattenLogStreamEventGridSink(sink)
      [] sink.tag = "HTTP" -> flattenLogStreamHTTPSink(sink)
      [] sink.tag = "Datadog" -> flattenLogStreamDatadogSink(sink)
      [] sink.tag = "Splunk" -> flattenLogStreamSplunkSink(sink)
      [] OTHER -> <<>>

(***************************************************************************)
(* The management API (api.LogStream) as the handlers see it: every call   *)
(* either succeeds or fails with a management.Error of status 404, a       *)
(* management.Error of another status, or an error of another type.        *)
(***************************************************************************)
Outcomes == {"ok", "mgmt404", "mgmt500", "other"}

\* err.(management.Error) succeeds and mErr.Status() == http.StatusNotFound
IsNotFound(e) == e = "mgmt404"

\* the identifier the API gives a stream it creates, and one it never gave
NewID == "lst_0001"
MissingID == "lst_9999"

\* the read-only sink fields, assigned on the remote side
ServerSink(sink) ==
    CASE sink.tag = "AmazonEventBridge" ->
            [sink EXCEPT !.PartnerEventSource = {"aws.partner/auth0.com/src"}]
      [] sink.tag = "AzureEventGrid" ->
            [sink EXCEPT !.PartnerTopic = {"auth0-partner-topic"}]
      [] OTHER -> sink

\* api.LogStream.Create: the record as sent, with its ID filled in
ApiCreate(ls) == [ls EXCEPT !.ID = {NewID}, !.Sink = ServerSink(ls.Sink)]

\* api.LogStream.Update: a PATCH, the fields sent replace the stored ones
ApiUpdate(rec, c) ==
    [ID |-> rec.ID,
     Name |-> IF c.Name # {} THEN c.Name ELSE rec.Name,
     Type |-> IF c.Type # {} THEN c.Type ELSE rec.Type,
     Status |-> IF c.Status # {} THEN c.Status ELSE rec.Status,
     Sink |-> IF c.Sink.tag # "nil" THEN c.Sink ELSE rec.Sink]

\* whether the remote side holds a stream under an identifier
Holds(rem, id) == rem # <<>> /\ rem[1].ID = {id}

\* the outcomes a call on an identifier can have: it succeeds only on a
\* stream the remote side holds
OutcomesOn(rem, id) == IF Holds(rem, id) THEN Outcomes ELSE Outcomes \ {"ok"}

\* the remote side after a call that answered out: a 404 means the stream is
\* not there (it never was, or it was removed by someone else)
After(rem, out) == IF out = "mgmt404" THEN <<>> ELSE rem

(***************************************************************************)
(* The four handlers, as functions of the ResourceData, the remote side    *)
(* and the outcomes of the API calls they make.                            *)
(***************************************************************************)
\* a mutant of readLogStream: a 404 is swallowed but the id is kept
readLogStream_KeepsIdOnNotFound(dd, rem, out) ==
    IF out # "ok"
    THEN IF IsNotFound(out)
         THEN [d |-> dd, err |-> "nil",
               calls |-> <<"api.Read">>, answers |-> <<out>>,
               written |-> {}, rejected |-> {}]
         ELSE [d |-> dd, err |-> out,
               calls |-> <<"api.Read">>, answers |-> <<out>>,
               written |-> {}, rejected |-> {}]
    ELSE LET ls == rem[1]
             writes == << <<"name", Deref(ls.Name, "")>>,
                          <<"status", Deref(ls.Status, "")>>,
                          <<"type", Deref(ls.Type, "")>> >>
                       \o flattenLogStreamSink(ls.Sink)
         IN [d |-> [dd EXCEPT !.id = Deref(ls.ID, ""),
                              !.fields = SetAll(@, writes)],
             err |-> "nil",
             calls |-> <<"api.Read", "SetId", "Set", "flattenLogStreamSink">>,
             answers |-> <<out>>,
             written |-> KeysOf(writes) \cap SchemaKeys,
             rejected |-> KeysOf(writes) \ SchemaKeys]

readLogStream(dd, rem, out) ==
    IF out # "ok"
    THEN IF IsNotFound(out)
         THEN [d |-> [dd EXCEPT !.id = ""], err |-> "nil",
               calls |-> <<"api.Read", "SetId">>, answers |-> <<out>>,
               written |-> {}, rejected |-> {}]
         ELSE [d |-> dd, err |-> out,
               calls |-> <<"api.Read">>, answers |-> <<out>>,
               written |-> {}, rejected |-> {}]
    ELSE LET ls == rem[1]
             writes == << <<"name", Deref(ls.Name, "")>>,
                          <<"status", Deref(ls.Status, "")>>,
                          <<"type", Deref(ls.Type, "")>> >>
                       \o flattenLogStreamSink(ls.Sink)
         IN [d |-> [dd EXCEPT !.id = Deref(ls.ID, ""),
                              !.fields = SetAll(@, writes)],
             err |-> "nil",
             calls |-> <<"api.Read", "SetId", "Set", "flattenLogStreamSink">>,
             answers |-> <<out>>,
             written |-> KeysOf(writes) \cap SchemaKeys,
             rejected |-> KeysOf(writes) \ SchemaKeys]

createLogStream(dd, rem, outCreate, outRead) ==
    LET ls == expandLogStream(dd) IN
    IF outCreate # "ok"
    THEN [d |-> dd, err |-> outCreate, remote |-> rem, payload |-> <<ls>>,
          calls |-> <<"expandLogStream", "api.Create">>, answers |-> <<outCreate>>,
          written |-> {}, rejected |-> {}]
    ELSE LET stored == ApiCreate(ls)
             rem1 == After(<<stored>>, outRead)
             r == readLogStream([dd EXCEPT !.id = Deref(stored.ID, "")], rem1, outRead)
         IN [d |-> r.d, err |-> r.err, remote |-> rem1, payload |-> <<ls>>,
             calls |-> <<"expandLogStream", "api.Create", "SetId", "readLogStream">>
                       \o r.calls,
             answers |-> <<outCreate>> \o r.answers,
             written |-> r.written, rejected |-> r.rejected]

updateLogStream(dd, rem, outUpdate, outRead) ==
    LET c == expandLogStream(dd) IN
    IF outUpdate # "ok"
    THEN [d |-> dd, err |-> outUpdate, remote |-> After(rem, outUpdate),
          payload |-> <<c>>,
          calls |-> <<"expandLogStream", "api.Update">>, answers |-> <<outUpdate>>,
          written |-> {}, rejected |-> {}]
    ELSE LET rem1 == After(<<ApiUpdate(rem[1], c)>>, outRead)
             r == readLogStream(dd, rem1, outRead)
         IN [d |-> r.d, err |-> r.err, remote |-> rem1, payload |-> <<c>>,
             calls |-> <<"expandLogStream", "api.Update", "readLogStream">> \o r.calls,
             answers |-> <<outUpdate>> \o r.answers,
             written |-> r.written, rejected |-> r.rejected]

\* a mutant of deleteLogStream: every management error is taken for a 404
deleteLogStream_SwallowsAnyStatus(dd, rem, out) ==
    IF out \in {"mgmt404", "mgmt500"}
    THEN [d |-> [dd EXCEPT !.id = ""], err |-> "nil",
          remote |-> IF out = "mgmt404" THEN <<>> ELSE rem,
          calls |-> <<"api.Delete", "SetId">>, answers |-> <<out>>]
    ELSE [d |-> dd, err |-> IF out = "ok" THEN "nil" ELSE out,
          remote |-> IF out = "ok" THEN <<>> ELSE rem,
          calls |-> <<"api.Delete">>, answers |-> <<out>>]

deleteLogStream(dd, rem, out) ==
    IF out # "ok" /\ IsNotFound(out)
    THEN [d |-> [dd EXCEPT !.id = ""], err |-> "nil", remote |-> <<>>,
          calls |-> <<"api.Delete", "SetId">>, answers |-> <<out>>]
    ELSE [d |-> dd, err |-> IF out = "ok" THEN "nil" ELSE out,
          remote |-> IF out = "ok" THEN <<>> ELSE rem,
          calls |-> <<"api.Delete">>, answers |-> <<out>>]

(***************************************************************************)
(* The lifecycle: the plugin framework validates the configuration, builds *)
(* the ResourceData and calls one handler at a time.                       *)
(***************************************************************************)
Init ==
    /\ config \in InitialConfigs
    /\ d = [id |-> "", isNew |-> FALSE, fields |-> ZeroFields]
    /\ remote = <<>>
    /\ pc = "config"
    /\ lastOp = "none"
    /\ err = "nil"
    /\ calls = <<>>
    /\ answers = <<>>
    /\ payload = <<>>
    /\ written = {}
    /\ rejected = {}

\* the lifecycle position a handler leaves the resource in
Position(dd) == IF dd.id = "" THEN "absent" ELSE "present"

\* the framework validates the configuration and, if it passes, plans the
\* creation: a new ResourceData holding the configured values
ValidateConfig ==
    /\ pc = "config"
    /\ lastOp' = "validate"
    /\ IF Validate(config)
       THEN /\ pc' = "planned"
            /\ d' = [id |-> "", isNew |-> TRUE, fields |-> Plan(config, ZeroFields)]
       ELSE /\ pc' = "rejected"
            /\ d' = d
    /\ UNCHANGED <<config, remote, err, calls, answers, payload, written, rejected>>

Create ==
    /\ pc = "planned"
    /\ \E outCreate \in Outcomes, outRead \in Outcomes :
          LET r == createLogStream(d, remote, outCreate, outRead) IN
          /\ d' = r.d
          /\ remote' = r.remote
          /\ err' = r.err
          /\ calls' = r.calls
          /\ answers' = r.answers
          /\ payload' = r.payload
          /\ written' = r.written
          /\ rejected' = r.rejected
          /\ pc' = Position(r.d)
    /\ lastOp' = "create"
    /\ UNCHANGED config

\* a refresh: the framework hands the handler the stored state
Read ==
    /\ pc \in {"present", "imported"}
    /\ \E out \in OutcomesOn(remote, d.id) :
          LET r == readLogStream([d EXCEPT !.isNew = FALSE], After(remote, out), out) IN
          /\ d' = r.d
          /\ remote' = After(remote, out)
          /\ err' = r.err
          /\ calls' = r.calls
          /\ answers' = r.answers
          /\ written' = r.written
          /\ rejected' = r.rejected
          /\ pc' = IF r.err = "nil" THEN Position(r.d) ELSE pc
    /\ lastOp' = "read"
    /\ payload' = <<>>
    /\ UNCHANGED config

\* the user changes name and/or status and the framework plans the update:
\* a ResourceData holding the new configuration over the stored state
PlanUpdate ==
    /\ pc = "present"
    /\ \E n \in Names, s \in Statuses :
          LET c == [config EXCEPT !.name = n, !.status = s] IN
          /\ c # config
          /\ Validate(c)
          /\ config' = c
          /\ d' = [id |-> d.id, isNew |-> FALSE, fields |-> Plan(c, d.fields)]
    /\ pc' = "changed"
    /\ lastOp' = "plan"
    /\ err' = "nil"
    /\ calls' = <<>>
    /\ answers' = <<>>
    /\ payload' = <<>>
    /\ written' = {}
    /\ rejected' = {}
    /\ UNCHANGED remote

Update ==
    /\ pc = "changed"
    /\ \E outUpdate \in OutcomesOn(remote, d.id), outRead \in Outcomes :
          LET r == updateLogStream(d, remote, outUpdate, outRead) IN
          /\ d' = r.d
          /\ remote' = r.remote
          /\ err' = r.err
          /\ calls' = r.calls
          /\ answers' = r.answers
          /\ payload' = r.payload
          /\ written' = r.written
          /\ rejected' = r.rejected
          /\ pc' = Position(r.d)
    /\ lastOp' = "update"
    /\ UNCHANGED config

Delete ==
    /\ pc = "present"
    /\ \E out \in OutcomesOn(remote, d.id) :
          LET r == deleteLogStream([d EXCEPT !.isNew = FALSE], remote, out) IN
          /\ d' = r.d
          /\ remote' = r.remote
          /\ err' = r.err
          /\ calls' = r.calls
          /\ answers' = r.answers
          /\ pc' = IF r.err = "nil" THEN "absent" ELSE "present"
    /\ lastOp' = "delete"
    /\ payload' = <<>>
    /\ written' = {}
    /\ rejected' = {}
    /\ UNCHANGED config

\* schema.ImportStatePassthrough: a ResourceData that holds the identifier
\* given on the command line and nothing else; the framework reads next
Import ==
    /\ pc = "present"
    /\ \E i \in {d.id, MissingID} :
          d' = [id |-> i, isNew |-> FALSE, fields |-> ZeroFields]
    /\ pc' = "imported"
    /\ lastOp' = "import"
    /\ err' = "nil"
    /\ calls' = <<>>
    /\ answers' = <<>>
    /\ payload' = <<>>
    /\ written' = {}
    /\ rejected' = {}
    /\ UNCHANGED <<config, remote>>

Next ==
    \/ ValidateConfig
    \/ Create
    \/ Read
    \/ PlanUpdate
    \/ Update
    \/ Delete
    \/ Import

Spec == Init /\ [][Next]_vars

(***************************************************************************)
(* Properties.                                                             *)
(***************************************************************************)
\* the pointer expand takes for a key the configuration gives: nil for zero
Ptr(c, k) == IF ConfigGet(c, k) # Zero(k) THEN {ConfigGet(c, k)} ELSE {}

\* the last handler sent a record to the API
Sent == lastOp \in {"create", "update"} /\ payload # <<>>

\* createLogStream returned nil after its Create and its Read both succeeded
Created == lastOp = "create" /\ answers = <<"ok", "ok">>

\* C1: for each of the five sink types, flatten applied to the sink that
\* expand built (here: stored by Create and read back) writes every sink
\* field the configuration sets back under its own schema key (so the key
\* the flatten helper writes it under is one the schema declares).
C1_FlattenExpandRoundTrip ==
    (Created /\ config.type \in TypeSlice) =>
        \A k \in GroupOf(config.type) \cap config.present :
            k \in written /\ d.fields[k] = ConfigGet(config, k)

\* C2: when Create and the following Read both succeed, createLogStream has
\* run expand, api.Create, SetId and readLogStream in that order, the local id
\* is the remote record's id, and the local type, name, status and sink fields
\* of the configured type equal the configuration's values.
C2_CreateThenRead ==
    Created =>
        /\ SubSeq(calls, 1, 4) =
              <<"expandLogStream", "api.Create", "SetId", "readLogStream">>
        /\ err = "nil"
        /\ remote # <<>>
        /\ remote[1].ID = {d.id}
        /\ d.id # ""
        /\ d.fields["name"] = config.name
        /\ d.fields["type"] = config.type
        /\ d.fields["status"] = config.status
        /\ \A k \in GroupOf(config.type) : d.fields[k] = ConfigGet(config, k)

\* C2 witness: a splunk stream with all four splunk fields and a status was
\* created and read back.
C2_Witness ==
    /\ Created
    /\ config.type = "splunk"
    /\ SplunkKeys \subseteq config.present
    /\ config.secure
    /\ config.status = "paused"
    /\ d.id = NewID
    /\ d.fields["splunk_secure"] = TRUE

\* the steps a handler performed, as a set
Steps(cs) == {cs[i] : i \in 1..Len(cs)}

\* C3: when the API call of readLogStream or deleteLogStream fails with a
\* management error of status 404, the handler returns no error and clears
\* the local id; no configuration field is written and flatten is not run.
C3_NotFoundClearsId ==
    [][(lastOp' \in {"read", "delete"} /\ answers' = <<"mgmt404">>) =>
          /\ err' = "nil"
          /\ d'.id = ""
          /\ d'.fields = d.fields
          /\ written' = {}
          /\ "flattenLogStreamSink" \notin Steps(calls')]_vars

\* C3 witness: a read of a stream the remote side does not hold answered 404
\* and left the local id empty.
C3_Witness ==
    /\ lastOp = "read"
    /\ answers = <<"mgmt404">>
    /\ remote = <<>>
    /\ d.id = ""
    /\ err = "nil"

\* C4: when the API call of create, read, update or delete fails with
\* anything other than a management error of status 404, the handler returns
\* that error and leaves the local state as it was: the id and every field
\* unchanged, and for create and update no follow-up read.
C4_ErrorPropagated ==
    [][(/\ lastOp' \in {"create", "read", "update", "delete"}
        /\ answers'[1] \notin {"ok", "mgmt404"}) =>
          /\ err' = answers'[1]
          /\ Len(answers') = 1
          /\ d'.id = d.id
          /\ d'.fields = d.fields
          /\ written' = {}
          /\ Steps(calls') \cap {"readLogStream", "SetId", "Set"} = {}]_vars

\* C4 witness: an update whose api.Update failed with a 500 returned it.
C4_Witness ==
    /\ lastOp = "update"
    /\ answers = <<"mgmt500">>
    /\ err = "mgmt500"
    /\ d.id = NewID

\* C5: an update that changes name and/or status sends the new name and the
\* new status and omits type, so after the update and its read the remote and
\* the local name and status are the new configuration's and type is as it
\* was.
C5_UpdateSendsNameAndStatus ==
    (lastOp = "update" /\ answers = <<"ok", "ok">>) =>
        /\ payload[1].Name = {config.name}
        /\ config.status # "" => payload[1].Status = {config.status}
        /\ payload[1].Type = {}
        /\ remote[1].Name = {config.name}
        /\ d.fields["name"] = config.name
        /\ config.status # "" => d.fields["status"] = config.status
        /\ d.fields["type"] = config.type

\* the configuration passed validation
Accepted == pc \notin {"config", "rejected"}

\* C6: in every configuration the schema's constraints accept, exactly one
\* sink field group is populated, it is the group the type selects, and every
\* field of the other four groups is absent.
C6_ExactlyOneGroup ==
    Accepted =>
        /\ config.present \cap GroupOf(config.type) # {}
        /\ config.present \subseteq GroupOf(config.type)

\* the sink expand builds for a supported type, from the configuration's
\* values of that type's field group; the read-only field is left nil
SinkFor(c) ==
    CASE c.type = "eventbridge" ->
            [tag |-> "AmazonEventBridge",
             AccountID |-> Ptr(c, "aws_account_id"),
             Region |-> Ptr(c, "aws_region"),
             PartnerEventSource |-> {}]
      [] c.type = "eventgrid" ->
            [tag |-> "AzureEventGrid",
             SubscriptionID |-> Ptr(c, "azure_subscription_id"),
             ResourceGroup |-> Ptr(c, "azure_resource_group"),
             Region |-> Ptr(c, "azure_region"),
             PartnerTopic |-> {}]
      [] c.type = "http" ->
            [tag |-> "HTTP",
             ContentFormat |-> Ptr(c, "http_content_format"),
             ContentType |-> Ptr(c, "http_content_type"),
             Endpoint |-> Ptr(c, "http_endpoint"),
             Authorization |-> Ptr(c, "http_authorization"),
             CustomHeaders |-> ConfigGet(c, "http_custom_headers")]
      [] c.type = "datadog" ->
            [tag |-> "Datadog",
             Region |-> Ptr(c, "datadog_region"),
             APIKey |-> Ptr(c, "datadog_api_key")]
      [] c.type = "splunk" ->
            [tag |-> "Splunk",
             Domain |-> Ptr(c, "splunk_domain"),
             Token |-> Ptr(c, "splunk_token"),
             Port |-> Ptr(c, "splunk_port"),
             Secure |-> Ptr(c, "splunk_secure")]

\* a sink with its read-only field cleared and its header list as a set
Configurable(sink) ==
    CASE sink.tag = "AmazonEventBridge" -> [sink EXCEPT !.PartnerEventSource = {}]
      [] sink.tag = "AzureEventGrid" -> [sink EXCEPT !.PartnerTopic = {}]
      [] sink.tag = "HTTP" -> [sink EXCEPT !.CustomHeaders = Steps(@)]
      [] OTHER -> sink

\* name, type and status of a record are the configuration's
HeadCopied(ls) ==
    /\ ls.Name = {config.name}
    /\ ls.Type = {config.type}
    /\ ls.Status = Ptr(config, "status")

\* name, type and status of a record as expand builds them: name and type
\* when the resource is new, status whenever the configuration sets it
HeadBuilt(ls) ==
    /\ lastOp = "create" => ls.Name = {config.name} /\ ls.Type = {config.type}
    /\ lastOp = "update" => ls.Type = {}
    /\ (lastOp = "create" \/ config.status # "") => ls.Status = Ptr(config, "status")

\* C7 as stated: for a supported type expand copies name, type and status
\* and builds the one sink variant of that type from that type's field group.
C7_ExpandCopiesAndDispatches ==
    (Sent /\ config.type \in TypeSlice) =>
        /\ HeadCopied(payload[1])
        /\ Configurable(payload[1].Sink) = SinkFor(config)

\* C7 as amended: for a supported type expand copies status, copies name and
\* type when the resource is being created and omits type on update, and
\* builds the one sink variant of that type, each field from the key of that
\* type's field group and none from another group.
C7_ExpandDispatchesOnType ==
    (Sent /\ config.type \in TypeSlice) =>
        /\ HeadBuilt(payload[1])
        /\ Configurable(payload[1].Sink) = SinkFor(config)

\* C7 witness: type http with the four HTTP fields set gave an HTTP sink that
\* carries those four values.
C7_Witness ==
    /\ Sent
    /\ config.type = "http"
    /\ HttpKeys \ {"http_custom_headers"} \subseteq config.present
    /\ payload[1].Sink.tag = "HTTP"
    /\ payload[1].Sink.Endpoint = {"val:http_endpoint"}
    /\ payload[1].Sink.ContentFormat = {"JSONLINES"}
    /\ payload[1].Sink.ContentType = {"val:http_content_type"}
    /\ payload[1].Sink.Authorization = {"val:http_authorization"}

\* the handler got as far as its API call with the record it built
Reached(call) == Len(calls) >= 2 /\ calls[2] = call /\ Len(answers) >= 1

\* C8 as stated: for a type that is none of the five tags expand returns a
\* record with name, type and status filled and no sink, without an error,
\* and create and update send that record.
C8_UnsupportedTypeFilledNoSink ==
    (Sent /\ config.type \notin TypeSlice) =>
        /\ HeadCopied(payload[1])
        /\ payload[1].Sink = NoSink
        /\ Reached(IF lastOp = "create" THEN "api.Create" ELSE "api.Update")

\* C8 as amended: for a type that is none of the five tags expand returns a
\* record with no sink, without an error, its status filled, its name and
\* type filled when the resource is being created, and create and update send
\* that record.
C8_UnsupportedTypeNoSink ==
    (Sent /\ config.type \notin TypeSlice) =>
        /\ HeadBuilt(payload[1])
        /\ payload[1].Sink = NoSink
        /\ Reached(IF lastOp = "create" THEN "api.Create" ELSE "api.Update")

\* C8 witness: an update of a stream whose type is none of the five tags sent
\* a record without a sink and the API took it.
C8_Witness ==
    /\ lastOp = "update"
    /\ config.type \notin TypeSlice
    /\ payload # <<>>
    /\ payload[1].Sink = NoSink
    /\ answers[1] = "ok"

\* C9: every type that passes validation reaches a sink-building arm of
\* expand: no accepted configuration is sent to the API without a sink.
C9_AcceptedTypeHasSink ==
    (Accepted /\ Sent) => payload[1].Sink # NoSink

\* C10: whenever createLogStream returns without error the local id is not
\* empty and is the id the API assigned in Create, whatever the follow-up
\* Read answered.
C10_CreateOkHasId ==
    (lastOp = "create" /\ err = "nil") => (d.id # "" /\ d.id = NewID)

====
